---- MODULE Spec2Model ----
(***************************************************************************)
(* tools/csa_to_grizzly_domain.py: clone the security-analytics            *)
(* repository, reset the target GRIZZLY domain directory, copy every       *)
(* *.sql script with the dataset placeholder substituted, write one YAML   *)
(* descriptor per script and finally SCOPE.yml.                            *)
(*                                                                         *)
(* Text is a sequence of one-character strings, so that lower(), split(),  *)
(* replace(), stem and the newline translation of text-mode file I/O are   *)
(* computed character by character as Python computes them.  "ESC" stands  *)
(* for the single character \033.  A YAML document is represented by the   *)
(* mapping it denotes.                                                     *)
(***************************************************************************)
EXTENDS Integers, Sequences, FiniteSets, TLC

VARIABLES
  args,          \* argparse.Namespace: domain_name, source_dataset, schedule_interval
  upstream,      \* files of GoogleCloudPlatform/security-analytics, in traversal order
  parent_exists, \* does the parent directory of grizzly_path exist
  dom,           \* the directory tree at grizzly_path
  temp_dir,      \* files under TEMP_DIR
  cmd_result,    \* the subprocess.CompletedProcess of run_command
  clone_calls,   \* subprocess.run invocations of the current process
  csa_scope,     \* the scope mapping accumulated by main
  pending,       \* files the glob generator has still to yield
  pc,            \* position of the process in main
  failed_at,     \* position at which the exception was raised
  error,         \* the exception that ended the process
  dom0,          \* dom as it was when the current process started
  runs           \* number of processes started so far

vars == <<args, upstream, parent_exists, dom, temp_dir, cmd_result, clone_calls,
          csa_scope, pending, pc, failed_at, error, dom0, runs>>

----------------------------------------------------------------------------
(* Bounds of the model *)

MaxFiles == 2       \* files in the cloned repository (pipeline specification)
MaxRuns == 2        \* processes run one after the other
MaxSegments == 2    \* '/'-delimited segments of domain_name (name specification)
MaxTokens == 4      \* '_'-delimited tokens of a file stem (name specification)
MaxPieces == 2      \* pieces a SQL body is made of (body specification)

----------------------------------------------------------------------------
(* Python str and pathlib operations *)

UpperCase == <<"A", "B", "C", "D", "E", "F", "G", "H", "I", "J", "K", "L", "M",
               "N", "O", "P", "Q", "R", "S", "T", "U", "V", "W", "X", "Y", "Z">>
LowerCase == <<"a", "b", "c", "d", "e", "f", "g", "h", "i", "j", "k", "l", "m",
               "n", "o", "p", "q", "r", "s", "t", "u", "v", "w", "x", "y", "z">>

LowerChar(c) ==
  IF \E k \in 1..26 : UpperCase[k] = c
  THEN LowerCase[CHOOSE k \in 1..26 : UpperCase[k] = c]
  ELSE c

\* str.lower()
StrLower(s) == [k \in 1..Len(s) |-> LowerChar(s[k])]

\* s[k:k+len(sub)] == sub, k counted from 1
OccursAt(s, sub, k) ==
  /\ k >= 1
  /\ k + Len(sub) - 1 <= Len(s)
  /\ \A j \in 1..Len(sub) : s[k + j - 1] = sub[j]

\* str.split(sep, maxsplit) for a one-character sep: split at the leftmost
\* separators, at most maxsplit times; maxsplit < 0 means no limit
RECURSIVE Split(_, _, _)
Split(s, sep, maxsplit) ==
  IF maxsplit = 0 \/ ~(\E k \in 1..Len(s) : s[k] = sep)
  THEN <<s>>
  ELSE LET k == CHOOSE x \in 1..Len(s) :
                  s[x] = sep /\ \A y \in 1..(x - 1) : s[y] # sep
       IN  <<SubSeq(s, 1, k - 1)>>
             \o Split(SubSeq(s, k + 1, Len(s)), sep,
                      IF maxsplit < 0 THEN maxsplit ELSE maxsplit - 1)

\* seq[-1]
Last(seq) == seq[Len(seq)]

\* str.replace(old, new): left to right, non-overlapping, no rescan of new
RECURSIVE StrReplace(_, _, _)
StrReplace(s, old, new) ==
  IF s = <<>> THEN <<>>
  ELSE IF OccursAt(s, old, 1)
  THEN new \o StrReplace(SubSeq(s, Len(old) + 1, Len(s)), old, new)
  ELSE <<Head(s)>> \o StrReplace(Tail(s), old, new)

\* PurePath.stem: the final component without its suffix; a leading or a
\* trailing dot starts no suffix
Stem(name) ==
  LET dots == {k \in 1..Len(name) : name[k] = "."}
      k == IF dots = {} THEN 0 ELSE CHOOSE x \in dots : \A y \in dots : y <= x
  IN  IF 1 < k /\ k < Len(name) THEN SubSeq(name, 1, k - 1) ELSE name

\* text-mode read (newline=None): "\r\n" and a lone "\r" become "\n"
RECURSIVE UniversalNewlines(_)
UniversalNewlines(bytes) ==
  IF bytes = <<>> THEN <<>>
  ELSE IF OccursAt(bytes, <<"\r", "\n">>, 1)
  THEN <<"\n">> \o UniversalNewlines(SubSeq(bytes, 3, Len(bytes)))
  ELSE IF Head(bytes) = "\r"
  THEN <<"\n">> \o UniversalNewlines(Tail(bytes))
  ELSE <<Head(bytes)>> \o UniversalNewlines(Tail(bytes))

\* os.linesep of the POSIX hosts the tool is run on
Linesep == <<"\n">>

\* Path.read_text()
ReadText(bytes) == UniversalNewlines(bytes)

\* the bytes Path.write_text(data) leaves in the file: "\n" becomes os.linesep
WrittenBytes(data) == StrReplace(data, <<"\n">>, Linesep)

----------------------------------------------------------------------------
(* Constants of the tool *)

PLACEHOLDER == <<"[", "M", "Y", "_", "P", "R", "O", "J", "E", "C", "T", "_", "I", "D", "]", ".",
                 "[", "M", "Y", "_", "D", "A", "T", "A", "S", "E", "T", "_", "I", "D", "]">>
DotSql == <<".", "s", "q", "l">>
DotYml == <<".", "y", "m", "l">>
QueriesSlash == <<"q", "u", "e", "r", "i", "e", "s", "/">>
ForeColorRED == <<"ESC", "[", "3", "1", "m">>
ForeColorRESET == <<"ESC", "[", "3", "9", "m">>
ExecutionTimeoutPerTable == 1200
JobWriteMode == "WRITE_TRUNCATE"

\* TEMP_DIR / 'backends' / 'bigquery' / 'sql'
SqlRoot == <<"backends", "bigquery", "sql">>

\* tempfile.mkdtemp: a new, empty directory for every process
Mkdtemp == <<>>

----------------------------------------------------------------------------
(* The values main computes *)

IsPrefix(p, s) == Len(p) <= Len(s) /\ SubSeq(s, 1, Len(p)) = p

\* fnmatch of a file name against '*.sql'
MatchesSql(name) ==
  Len(name) >= Len(DotSql) /\ OccursAt(name, DotSql, Len(name) - Len(DotSql) + 1)

\* (TEMP_DIR / 'backends' / 'bigquery' / 'sql').glob('**/*.sql'): the files at
\* any depth under the directory whose name matches, in traversal order
Glob(tree) ==
  SelectSeq(tree, LAMBDA f : IsPrefix(SqlRoot, f.dir) /\ MatchesSql(f.name))

DatasetNameNoSplit(domain_name) == StrLower(domain_name)

\* args.domain_name.lower().split('/')[-1]
DatasetName(domain_name) == Last(Split(StrLower(domain_name), "/", -1))

NameTailOneSplit(stem) == Last(Split(StrLower(stem), "_", 1))

\* str(f.stem.lower()).split('_', 2)[-1]
NameTail(stem) == Last(Split(StrLower(stem), "_", 2))

\* dataset_name + '.' + str(f.stem.lower()).split('_', 2)[-1]
CsaFileName(dataset_name, f) == dataset_name \o <<".">> \o NameTail(Stem(f.name))

\* the final components of sql_file and yml_file
SqlFileName(csa_file_name) == csa_file_name \o DotSql
YmlFileName(csa_file_name) == csa_file_name \o DotYml

\* f.read_text().replace('[MY_PROJECT_ID].[MY_DATASET_ID]', args.source_dataset)
SqlFileData(f, source_dataset) ==
  StrReplace(ReadText(f.bytes), PLACEHOLDER, source_dataset)

\* yml_file_data; sql_file.relative_to(grizzly_path) is queries/<name>.sql
YmlFileData(csa_file_name) ==
  [target_table_name |-> csa_file_name,
   job_write_mode |-> JobWriteMode,
   stage_loading_query |-> QueriesSlash \o SqlFileName(csa_file_name)]

StaleEtlScope == csa_scope.etl_scope

\* 'etl_scope': []
FreshEtlScope == <<>>

\* csa_scope as main creates it
NewScope ==
  [schedule_interval |-> args.schedule_interval,
   execution_timeout_per_table |-> ExecutionTimeoutPerTable,
   etl_scope |-> FreshEtlScope]

NeverRaises(result) == FALSE

\* run_command: cmd_result.returncode != 0
Raises(result) == result.returncode # 0

\* f'{ForeColor.RED}{cmd_result.stderr.decode("utf-8")}{ForeColor.RESET}'
ExceptionText(result) == ForeColorRED \o result.stderr \o ForeColorRESET

----------------------------------------------------------------------------
(* The directory at grizzly_path.  sql maps the file names in queries/ to   *)
(* their bytes, yml the names of the *.yml files at the root other than     *)
(* SCOPE.yml to their documents, scope holds the document of SCOPE.yml when *)
(* the file exists, other the names of all further entries.                 *)

EmptyMap == [k \in {} |-> <<>>]

Absent ==
  [kind |-> "absent", queries |-> FALSE, sql |-> EmptyMap, yml |-> EmptyMap,
   scope |-> <<>>, other |-> {}]

RegularFile == [Absent EXCEPT !.kind = "file"]

EmptyDir == [Absent EXCEPT !.kind = "dir"]

NeverExists(d) == FALSE

\* grizzly_path.exists()
Exists(d) == d.kind # "absent"

RmtreeKeepsContent(d) == d

\* shutil.rmtree(grizzly_path) of a directory
Rmtree(d) == Absent

KeepExisting(map, name, data) ==
  IF name \in DOMAIN map THEN map
  ELSE [k \in DOMAIN map \cup {name} |-> IF k = name THEN data ELSE map[k]]

\* Path.write_text: the file is created or truncated, then written
WriteFile(map, name, data) ==
  [k \in DOMAIN map \cup {name} |-> IF k = name THEN data ELSE map[k]]

AppendUnlessPresent(list, name) ==
  IF \E k \in 1..Len(list) : list[k] = name THEN list ELSE Append(list, name)

\* csa_scope['etl_scope'].append(...)
AppendScope(list, name) == Append(list, name)

----------------------------------------------------------------------------
(* Inputs: command lines, repository contents, prior states of the target *)

File(dir, name, bytes) == [dir |-> dir, name |-> name, bytes |-> bytes]

Strings(alphabet, n) == UNION {[1..k -> alphabet] : k \in 0..n}

RECURSIVE Flatten(_)
Flatten(seqs) == IF seqs = <<>> THEN <<>> ELSE Head(seqs) \o Flatten(Tail(seqs))

ScenarioDomain == <<"t", "e", "a", "m", "/", "b", "a", "s", "_", "c", "s", "a">>
ScenarioDataset == <<"p", "r", "o", "j", ".", "d", "s">>
ScenarioName == <<"c", "s", "a", "_", "f", "a", "i", "l", "e", "d", "_", "l", "o", "g", "i", "n", "s", ".", "s", "q", "l">>
ScenarioBody ==
  <<"S", "E", "L", "E", "C", "T", " ", "*", " ", "F", "R", "O", "M", " ">>
    \o PLACEHOLDER \o <<".", "e", "v", "e", "n", "t", "s">>
LoginName == <<"1", "_", "0", "1", "_", "L", "o", "g", "i", "n", ".", "s", "q", "l">>
OtherLoginName == <<"2", "_", "0", "5", "_", "l", "o", "g", "i", "n", ".", "s", "q", "l">>

\* -d/--domain_name, -s/--source_dataset, --schedule_interval
DomainNames == {ScenarioDomain, <<"B", "A", "S", "_", "C", "S", "A">>}
SourceDatasets == {ScenarioDataset}
ScheduleIntervals == {"@daily"}

\* files the upstream repository may hold
FilePool ==
  { File(SqlRoot, ScenarioName, ScenarioBody),
    File(SqlRoot, LoginName, PLACEHOLDER \o <<",">> \o PLACEHOLDER),
    File(SqlRoot \o <<"iam">>, OtherLoginName, <<"x">>),
    File(SqlRoot, <<"R", "E", "A", "D", "M", "E", ".", "m", "d">>, <<"x">>),
    File(<<"docs">>, LoginName, <<"x">>) }

\* a tree lists each path once
Trees(pool, n) ==
  {tree \in UNION {[1..k -> pool] : k \in 0..n} :
     \A i, j \in DOMAIN tree : tree[i] = tree[j] => i = j}

\* exit status and decoded standard error of the gh process
CmdResults ==
  { [returncode |-> 0, stderr |-> <<>>],
    [returncode |-> 1, stderr |-> <<"d", "e", "n", "i", "e", "d">>] }

\* a domain directory left by an earlier, different export
StaleDir ==
  [kind |-> "dir",
   queries |-> TRUE,
   sql |-> (<<"b", "a", "s", "_", "c", "s", "a", ".", "l", "o", "g", "i", "n", ".", "s", "q", "l">> :> <<"s", "t", "a", "l", "e">>),
   yml |-> (<<"b", "a", "s", "_", "c", "s", "a", ".", "l", "o", "g", "i", "n", ".", "y", "m", "l">> :>
              [target_table_name |-> <<"s", "t", "a", "l", "e">>,
               job_write_mode |-> "WRITE_APPEND",
               stage_loading_query |-> <<"s", "t", "a", "l", "e">>]),
   scope |-> <<[schedule_interval |-> "@old",
                execution_timeout_per_table |-> ExecutionTimeoutPerTable,
                etl_scope |-> <<<<"b", "a", "s", "_", "c", "s", "a", ".", "g", "o", "n", "e">>>>]>>,
   other |-> {"notes.txt", "archive"}]

\* <<does the parent directory exist, what is at grizzly_path>>
InitialTargets ==
  {<<FALSE, Absent>>, <<TRUE, Absent>>, <<TRUE, RegularFile>>, <<TRUE, StaleDir>>}

\* bodies of the body specification
Pieces ==
  { PLACEHOLDER,
    SubSeq(PLACEHOLDER, 1, 16),
    StrLower(PLACEHOLDER),
    <<"x">>, <<"\r">>, <<"\n">> }
Bodies == {Flatten(ps) : ps \in Strings(Pieces, MaxPieces)}
WideSourceDatasets == {ScenarioDataset, <<>>, <<"[">> \o PLACEHOLDER}

RECURSIVE Join(_, _)
Join(tokens, sep) ==
  IF tokens = <<>> THEN <<>>
  ELSE IF Len(tokens) = 1 THEN tokens[1]
  ELSE tokens[1] \o <<sep>> \o Join(Tail(tokens), sep)

\* names of the name specification: segments joined by '/', tokens by '_'
Segments == {<<>>, <<"B", "_", "c">>}
StemTokens == {<<>>, <<"A">>, <<"b", ".", "C">>}
WideDomainNames == {Join(segs, "/") : segs \in Strings(Segments, MaxSegments)}
WideStems == {Join(toks, "_") : toks \in Strings(StemTokens, MaxTokens)} \ {<<>>}

NoResult == [returncode |-> 0, stderr |-> <<>>]
NoScope == [schedule_interval |-> "", execution_timeout_per_table |-> 0, etl_scope |-> <<>>]
NoError == [type |-> "", text |-> <<>>]

\* module import and the start of main
ProcessStart ==
  /\ temp_dir = Mkdtemp
  /\ cmd_result = NoResult
  /\ clone_calls = 0
  /\ csa_scope = NoScope
  /\ pending = <<>>
  /\ pc = "clone"
  /\ failed_at = ""
  /\ error = NoError
  /\ dom0 = dom
  /\ runs = 1

Init ==
  /\ args \in [domain_name : DomainNames, source_dataset : SourceDatasets,
               schedule_interval : ScheduleIntervals]
  /\ upstream \in Trees(FilePool, MaxFiles)
  /\ \E target \in InitialTargets : parent_exists = target[1] /\ dom = target[2]
  /\ ProcessStart

InitNames ==
  /\ args \in [domain_name : WideDomainNames,
               source_dataset : SourceDatasets,
               schedule_interval : ScheduleIntervals]
  /\ \E stem \in WideStems :
       upstream = <<File(SqlRoot, stem \o DotSql, <<"x">>)>>
  /\ \E target \in InitialTargets : parent_exists = target[1] /\ dom = target[2]
  /\ ProcessStart

InitBodies ==
  /\ args \in [domain_name : {ScenarioDomain}, source_dataset : WideSourceDatasets,
               schedule_interval : ScheduleIntervals]
  /\ \E body \in Bodies : upstream = <<File(SqlRoot, LoginName, body)>>
  /\ \E target \in InitialTargets : parent_exists = target[1] /\ dom = target[2]
  /\ ProcessStart

----------------------------------------------------------------------------
(* main, one action for each step *)

\* an exception leaves main; the handler of __main__ prints and re-raises it
Raise(type, text) ==
  /\ pc' = "failed"
  /\ failed_at' = pc
  /\ error' = [type |-> type, text |-> text]

\* dataset_name and the loop variables f and csa_file_name
dataset_name == DatasetName(args.domain_name)
f == Head(pending)
csa_file_name == CsaFileName(dataset_name, f)

\* cmd_result = run_command(shell_cmd); csa_scope = {...}
Fetch ==
  /\ pc = "clone"
  /\ \E result \in CmdResults :
       /\ cmd_result' = result
       /\ IF Raises(result)
          THEN /\ Raise("Exception", ExceptionText(result))
               /\ UNCHANGED <<temp_dir, csa_scope>>
          ELSE /\ temp_dir' = temp_dir \o upstream
               /\ csa_scope' = NewScope
               /\ pc' = "reset"
               /\ UNCHANGED <<failed_at, error>>
  /\ clone_calls' = clone_calls + 1
  /\ UNCHANGED <<args, upstream, parent_exists, dom, pending, dom0, runs>>

\* if grizzly_path.exists(): shutil.rmtree(grizzly_path)
Reset ==
  /\ pc = "reset"
  /\ IF ~Exists(dom)
     THEN pc' = "mkdir" /\ UNCHANGED <<dom, failed_at, error>>
     ELSE IF dom.kind = "dir"
     THEN dom' = Rmtree(dom) /\ pc' = "mkdir" /\ UNCHANGED <<failed_at, error>>
     ELSE Raise("NotADirectoryError", <<>>) /\ UNCHANGED dom
  /\ UNCHANGED <<args, upstream, parent_exists, temp_dir, cmd_result, clone_calls,
                 csa_scope, pending, dom0, runs>>

\* grizzly_path.mkdir(exist_ok=True): the parents are not created
Mkdir ==
  /\ pc = "mkdir"
  /\ IF ~parent_exists
     THEN Raise("FileNotFoundError", <<>>) /\ UNCHANGED dom
     ELSE IF dom.kind = "file"
     THEN Raise("FileExistsError", <<>>) /\ UNCHANGED dom
     ELSE /\ dom' = IF dom.kind = "dir" THEN dom ELSE EmptyDir
          /\ pc' = "mkdir_queries"
          /\ UNCHANGED <<failed_at, error>>
  /\ UNCHANGED <<args, upstream, parent_exists, temp_dir, cmd_result, clone_calls,
                 csa_scope, pending, dom0, runs>>

\* (grizzly_path / 'queries').mkdir(exist_ok=True)
MkdirQueries ==
  /\ pc = "mkdir_queries"
  /\ dom' = [dom EXCEPT !.queries = TRUE]
  /\ pc' = "glob"
  /\ UNCHANGED <<args, upstream, parent_exists, temp_dir, cmd_result, clone_calls,
                 csa_scope, pending, failed_at, error, dom0, runs>>

\* the generator of the for statement is created
GlobStart ==
  /\ pc = "glob"
  /\ pending' = Glob(temp_dir)
  /\ pc' = "for"
  /\ UNCHANGED <<args, upstream, parent_exists, dom, temp_dir, cmd_result,
                 clone_calls, csa_scope, failed_at, error, dom0, runs>>

\* for f in ...: the next file, or the end of the loop
ForNext ==
  /\ pc = "for"
  /\ pc' = IF pending = <<>> THEN "write_scope" ELSE "write_yml"
  /\ UNCHANGED <<args, upstream, parent_exists, dom, temp_dir, cmd_result,
                 clone_calls, csa_scope, pending, failed_at, error, dom0, runs>>

\* yml_file.write_text(yaml.safe_dump(yml_file_data))
WriteYml ==
  /\ pc = "write_yml"
  /\ dom' = [dom EXCEPT !.yml = WriteFile(@, YmlFileName(csa_file_name),
                                          YmlFileData(csa_file_name))]
  /\ pc' = "write_sql"
  /\ UNCHANGED <<args, upstream, parent_exists, temp_dir, cmd_result, clone_calls,
                 csa_scope, pending, failed_at, error, dom0, runs>>

\* sql_file.write_text(sql_file_data)
WriteSql ==
  /\ pc = "write_sql"
  /\ IF dom.queries
     THEN /\ dom' = [dom EXCEPT !.sql =
                       WriteFile(@, SqlFileName(csa_file_name),
                                 WrittenBytes(SqlFileData(f, args.source_dataset)))]
          /\ pc' = "append"
          /\ UNCHANGED <<failed_at, error>>
     ELSE Raise("FileNotFoundError", <<>>) /\ UNCHANGED dom
  /\ UNCHANGED <<args, upstream, parent_exists, temp_dir, cmd_result, clone_calls,
                 csa_scope, pending, dom0, runs>>

\* csa_scope['etl_scope'].append(yml_file.stem)
AppendStem ==
  /\ pc = "append"
  /\ csa_scope' = [csa_scope EXCEPT !.etl_scope =
                     AppendScope(@, Stem(YmlFileName(csa_file_name)))]
  /\ pending' = Tail(pending)
  /\ pc' = "for"
  /\ UNCHANGED <<args, upstream, parent_exists, dom, temp_dir, cmd_result,
                 clone_calls, failed_at, error, dom0, runs>>

\* scope_file.write_text(yaml.safe_dump(csa_scope)); return
WriteScope ==
  /\ pc = "write_scope"
  /\ dom' = [dom EXCEPT !.scope = <<csa_scope>>]
  /\ pc' = "done"
  /\ UNCHANGED <<args, upstream, parent_exists, temp_dir, cmd_result, clone_calls,
                 csa_scope, pending, failed_at, error, dom0, runs>>

\* steps of main that touch the file system
IOSteps == {"reset", "mkdir", "mkdir_queries", "for", "write_yml", "write_sql", "write_scope"}

\* the operating system refuses a file operation: the exception propagates
IOFault ==
  /\ pc \in IOSteps
  /\ Raise("OSError", <<>>)
  /\ UNCHANGED <<args, upstream, parent_exists, dom, temp_dir, cmd_result,
                 clone_calls, csa_scope, pending, dom0, runs>>

\* the tool is run again with the same command line against the same
\* upstream repository; main's locals keep no meaning until main assigns them
Rerun ==
  /\ pc = "done"
  /\ runs < MaxRuns
  /\ runs' = runs + 1
  /\ dom0' = dom
  /\ temp_dir' = Mkdtemp
  /\ cmd_result' = NoResult
  /\ clone_calls' = 0
  /\ pending' = <<>>
  /\ pc' = "clone"
  /\ UNCHANGED <<args, upstream, parent_exists, dom, csa_scope, failed_at, error>>

Next ==
  \/ Fetch
  \/ Reset
  \/ Mkdir
  \/ MkdirQueries
  \/ GlobStart
  \/ ForNext
  \/ WriteYml
  \/ WriteSql
  \/ AppendStem
  \/ WriteScope
  \/ IOFault
  \/ Rerun

Spec == Init /\ [][Next]_vars
SpecNames == InitNames /\ [][Next]_vars
SpecBodies == InitBodies /\ [][Next]_vars

----------------------------------------------------------------------------
(* What the claims speak of *)

\* the etl_scope list of the SCOPE.yml on disk
WrittenScope == dom.scope[1].etl_scope

\* positions in the clone of the *.sql files under backends/bigquery/sql
Found == {k \in DOMAIN temp_dir :
            IsPrefix(SqlRoot, temp_dir[k].dir) /\ MatchesSql(temp_dir[k].name)}

\* the i-th smallest element of a set of numbers
Nth(S, i) == CHOOSE x \in S : Cardinality({y \in S : y < x}) = i - 1

\* positions of the found files whose derived name is name
Sources(name) == {k \in Found : CsaFileName(dataset_name, temp_dir[k]) = name}

Max(S) == CHOOSE x \in S : \A y \in S : y <= x

\* the underscore-delimited tokens of a stem, and the stem without the first two
Tokens(stem) == Split(stem, "_", -1)
DropTwoTokens(stem) == Join(SubSeq(Tokens(stem), 3, Len(Tokens(stem))), "_")

\* the last '/'-delimited segment of domain_name, lowercased
LastSegmentLowered == StrLower(Last(Split(args.domain_name, "/", -1)))

\* the one script of a single-file repository, and what the run derived from it
OnlyStem == Stem(upstream[1].name)
DerivedAs(name) ==
  /\ WrittenScope = <<name>>
  /\ DOMAIN dom.yml = {name \o DotYml}
  /\ dom.yml[name \o DotYml].target_table_name = name
  /\ DOMAIN dom.sql = {name \o DotSql}

\* start positions of the placeholder in a body
Occurrences(body) == {k \in 1..Len(body) : OccursAt(body, PLACEHOLDER, k)}

\* body with the text at every occurrence exchanged for new, the rest in place
Substituted(body, new) ==
  Flatten([k \in 1..Len(body) |->
             IF k \in Occurrences(body) THEN new
             ELSE IF \E j \in Occurrences(body) : j < k /\ k < j + Len(PLACEHOLDER)
             THEN <<>>
             ELSE <<body[k]>>])

\* the run of the scenario has completed
ScenarioDone ==
  /\ args.domain_name = ScenarioDomain
  /\ args.source_dataset = ScenarioDataset
  /\ upstream = <<File(SqlRoot, ScenarioName, ScenarioBody)>>
  /\ pc = "done"

ScenarioOutput(name, body) ==
  /\ dataset_name = <<"b", "a", "s", "_", "c", "s", "a">>
  /\ WrittenScope = <<name>>
  /\ DOMAIN dom.sql = {name \o DotSql}
  /\ dom.sql[name \o DotSql] = body
  /\ DOMAIN dom.yml = {name \o DotYml}
  /\ dom.yml[name \o DotYml] =
       [target_table_name |-> name,
        job_write_mode |-> "WRITE_TRUNCATE",
        stage_loading_query |-> <<"q", "u", "e", "r", "i", "e", "s", "/">> \o name \o <<".", "s", "q", "l">>]

\* C1, as claimed: the scenario run yields dataset_name bas_csa, the derived
\* name bas_csa.failed_logins, queries/bas_csa.failed_logins.sql holding
\* SELECT * FROM proj.ds.events, and the descriptor naming both.
C1_ScenarioAsClaimed ==
  ScenarioDone =>
    ScenarioOutput(<<"b", "a", "s", "_", "c", "s", "a", ".", "f", "a", "i", "l", "e", "d", "_", "l", "o", "g", "i", "n", "s">>, <<"S", "E", "L", "E", "C", "T", " ", "*", " ", "F", "R", "O", "M", " ", "p", "r", "o", "j", ".", "d", "s", ".", "e", "v", "e", "n", "t", "s">>)

\* C1, amended: the scenario run, once completed, yields dataset_name bas_csa,
\* the derived name bas_csa.logins (csa and failed are the two tokens dropped),
\* queries/bas_csa.logins.sql holding SELECT * FROM proj.ds.events, and the
\* descriptor {target_table_name: bas_csa.logins, job_write_mode:
\* WRITE_TRUNCATE, stage_loading_query: queries/bas_csa.logins.sql}.
C1_Scenario ==
  ScenarioDone =>
    ScenarioOutput(<<"b", "a", "s", "_", "c", "s", "a", ".", "l", "o", "g", "i", "n", "s">>, <<"S", "E", "L", "E", "C", "T", " ", "*", " ", "F", "R", "O", "M", " ", "p", "r", "o", "j", ".", "d", "s", ".", "e", "v", "e", "n", "t", "s">>)

C1_Witness == ScenarioDone /\ runs = 1

\* C2, as claimed: for every processed file the derived name is dataset_name,
\* a dot, and the lowercased stem with its first two underscore tokens dropped,
\* dataset_name being the lowercased last segment of domain_name.
C2_AlwaysTwoTokensDropped ==
  pc = "done" =>
    DerivedAs(LastSegmentLowered \o <<".">> \o DropTwoTokens(StrLower(OnlyStem)))

\* C2, amended: the derived name is dataset_name, a dot, and the lowercased
\* stem with its first two underscore tokens dropped when the stem has at
\* least three tokens; a stem of one or two tokens keeps its last token.
C2_DerivedName ==
  pc = "done" =>
    DerivedAs(LastSegmentLowered \o <<".">> \o
                (IF Len(Tokens(OnlyStem)) >= 3
                 THEN DropTwoTokens(StrLower(OnlyStem))
                 ELSE Last(Tokens(StrLower(OnlyStem)))))

C2_Witness ==
  /\ pc = "done"
  /\ upstream[1].name = <<"A", "_", "A", "_", "b", ".", "C", "_", "A", ".", "s", "q", "l">>
  /\ args.domain_name = <<"B", "_", "c", "/", "B", "_", "c">>

\* C3, as claimed: the bytes written to queries/<csa_file_name>.sql are the
\* source body with every occurrence of the placeholder replaced by
\* source_dataset and every other character in place; a body without the
\* placeholder is written unchanged.
C3_BodyKeptButPlaceholder ==
  pc = "done" =>
    \A name \in DOMAIN dom.sql :
      /\ dom.sql[name] = Substituted(upstream[1].bytes, args.source_dataset)
      /\ Occurrences(upstream[1].bytes) = {} => dom.sql[name] = upstream[1].bytes

\* C4: after a completed run etl_scope of SCOPE.yml has one entry per *.sql
\* file found under backends/bigquery/sql, the i-th entry being the derived
\* name of the i-th such file in traversal order.
C4_ScopeListsEveryFile ==
  pc = "done" =>
    /\ Len(dom.scope) = 1
    /\ Len(WrittenScope) = Cardinality(Found)
    /\ \A i \in 1..Len(WrittenScope) :
         WrittenScope[i] = CsaFileName(dataset_name, temp_dir[Nth(Found, i)])

C4_Witness ==
  /\ pc = "done"
  /\ Len(WrittenScope) = 2
  /\ WrittenScope[1] = WrittenScope[2]
  /\ Len(temp_dir) = 2

\* C5: when the domain directory existed before the run, a completed run
\* leaves in it only SCOPE.yml, the queries directory with the generated SQL
\* files, and the generated descriptors; nothing of the old content remains.
C5_NoStaleEntries ==
  (pc = "done" /\ dom0.kind = "dir") =>
    /\ dom.kind = "dir"
    /\ dom.queries
    /\ dom.other = {}
    /\ dom.scope = <<csa_scope>>
    /\ DOMAIN dom.yml = {WrittenScope[i] \o DotYml : i \in 1..Len(WrittenScope)}
    /\ DOMAIN dom.sql = {WrittenScope[i] \o DotSql : i \in 1..Len(WrittenScope)}
    /\ \A i \in 1..Len(WrittenScope) :
         /\ dom.yml[WrittenScope[i] \o DotYml] = YmlFileData(WrittenScope[i])
         /\ \E k \in Found :
              dom.sql[WrittenScope[i] \o DotSql] =
                WrittenBytes(SqlFileData(temp_dir[k], args.source_dataset))

C5_Witness ==
  /\ pc = "done"
  /\ dom0 = StaleDir
  /\ <<"b", "a", "s", "_", "c", "s", "a", ".", "l", "o", "g", "i", "n", ".", "s", "q", "l">> \in DOMAIN dom.sql

\* C6: a second run with the same arguments against the unchanged repository
\* leaves the domain directory as the first run left it.
C6_SecondRunReproduces == (pc = "done" /\ runs >= 2) => dom = dom0

C6_Witness == pc = "done" /\ runs = 2 /\ Len(WrittenScope) = 2

\* stage of the pipeline a position belongs to
Stage(p) ==
  CASE p = "clone" -> 1
    [] p \in {"reset", "mkdir", "mkdir_queries"} -> 2
    [] p \in {"glob", "for", "write_yml", "write_sql", "append"} -> 3
    [] p = "write_scope" -> 4
    [] p = "done" -> 5
    [] p = "failed" -> 6

\* C7: when the clone command exits non-zero, run_command raises an error
\* carrying the captured standard error, the command is not run again and the
\* domain directory is as it was; the process only moves forward through
\* Fetch, Reset, Transform, Write-scope, and a failure is final.
C7_CloneFailureEndsRun ==
  /\ [](cmd_result.returncode # 0 =>
          /\ pc = "failed"
          /\ failed_at = "clone"
          /\ error = [type |-> "Exception",
                      text |-> <<"ESC", "[", "3", "1", "m">> \o cmd_result.stderr \o <<"ESC", "[", "3", "9", "m">>]
          /\ clone_calls = 1
          /\ dom = dom0)
  /\ [][/\ runs' = runs => Stage(pc') >= Stage(pc)
        /\ pc = "failed" => pc' = "failed"]_vars

C7_Witness ==
  /\ pc = "failed"
  /\ failed_at = "clone"
  /\ cmd_result.returncode = 1
  /\ dom0 = StaleDir

\* C8, as claimed: whatever was at grizzly_path, the Reset step ends with the
\* domain directory holding nothing but an empty queries directory, and it
\* raises no error of its own when the directory did not exist before.
C8_ResetAlwaysSucceeds ==
  /\ pc = "glob" => dom = [EmptyDir EXCEPT !.queries = TRUE]
  /\ (pc = "failed" /\ failed_at \in {"reset", "mkdir", "mkdir_queries"}
        /\ dom0.kind = "absent") => error.type = "OSError"

\* C9: when two source files map to the same derived name the run does not
\* fail on it; the domain ends with one SQL file and one descriptor for the
\* name, the SQL file holding the substituted body of the file processed
\* last, and the name is in etl_scope once per source file.
C9_LaterFileOverwrites ==
  /\ (pc = "failed" /\ failed_at \in {"write_yml", "write_sql", "append"})
       => error.type = "OSError"
  /\ pc = "done" =>
       \A k \in Found :
         LET name == CsaFileName(dataset_name, temp_dir[k])
         IN  /\ dom.sql[name \o DotSql] =
                  WrittenBytes(SqlFileData(temp_dir[Max(Sources(name))],
                                           args.source_dataset))
             /\ dom.yml[name \o DotYml] = YmlFileData(name)
             /\ Cardinality({i \in 1..Len(WrittenScope) : WrittenScope[i] = name})
                  = Cardinality(Sources(name))

C9_Witness ==
  /\ pc = "done"
  /\ \E j, k \in Found : j < k /\ Sources(CsaFileName(dataset_name, temp_dir[k])) = {j, k}
  /\ Cardinality(DOMAIN dom.sql) = 1

\* the Reset step of the current process is past its rmtree
PastRmtree ==
  LET later == {"mkdir", "mkdir_queries", "glob", "for", "write_yml", "write_sql",
                "append", "write_scope", "done"}
  IN  pc \in later \/ (pc = "failed" /\ failed_at \in later)

\* C10: once the Reset step is past removing the old directory, also when the
\* run aborted during Transform, a SCOPE.yml in the domain directory lists only
\* names whose descriptor and SQL file are both present.
C10_ScopeWrittenLast ==
  (PastRmtree /\ dom.scope # <<>>) =>
    \A i \in 1..Len(WrittenScope) :
      /\ WrittenScope[i] \o DotYml \in DOMAIN dom.yml
      /\ WrittenScope[i] \o DotSql \in DOMAIN dom.sql

C10_Witness ==
  /\ PastRmtree
  /\ dom.scope # <<>>
  /\ dom0 = StaleDir
  /\ Len(WrittenScope) = 2

====
